---- MODULE Spec2Model ----
(***************************************************************************)
(* ReBuild: the pattern tree of rebuild/analyser.py, its simplification    *)
(* (optimised) and its rendering (regex), and the two example programs.    *)
(*                                                                         *)
(* Python objects live on a heap: the heap is a sequence of node records,  *)
(* a node's address is its index, and a node's children are addresses.     *)
(* A method call is a function of the heap and the receiver that returns   *)
(* the heap after the call, the returned address (or text), and the        *)
(* exception raised, if any.                                               *)
(***************************************************************************)
EXTENDS Integers, Sequences, FiniteSets, TLC

VARIABLES
    heap,     \* the objects constructed so far
    root,     \* the tree under construction: the last object the caller built
    op,       \* the caller's last operation
    arg,      \* the receiver of the last optimised() / regex() call
    atom,     \* the as_atom argument of the last regex() call
    ret,      \* the object the last optimised() call returned (0: none)
    exc,      \* the exception the last call raised ("": none)
    out,      \* the text the last regex() call returned, or the text printed
    depth,    \* constructor calls nested in root
    calls     \* optimised() / regex() calls made

vars == <<heap, root, op, arg, atom, ret, exc, out, depth, calls>>

(***************************************************************************)
(* Bounds of the model.                                                    *)
(***************************************************************************)
\* constructor calls the caller nests around the pattern it starts from
MaxDepth == 1
\* largest repeat count
MaxN == 2
\* optimised() / regex() calls made on a constructed tree
MaxCalls == 1

(***************************************************************************)
(* The node classes: __init__ stores its arguments as attributes.          *)
(***************************************************************************)
EmptyNode == [type |-> "EmptyNode"]

Sequence(items) == [type |-> "Sequence", items |-> items]

Alternation(options) == [type |-> "Alternation", options |-> options]

SingleChar(char) == [type |-> "SingleChar", char |-> char]

OneOrMore(pattern, is_lazy) ==
    [type |-> "OneOrMore", pattern |-> pattern, is_lazy |-> is_lazy]

ZeroOrMore(pattern, is_lazy) ==
    [type |-> "ZeroOrMore", pattern |-> pattern, is_lazy |-> is_lazy]

Optional(pattern, is_lazy) ==
    [type |-> "Optional", pattern |-> pattern, is_lazy |-> is_lazy]

CapturingGroup(pattern) == [type |-> "CapturingGroup", pattern |-> pattern]

NonCapturingGroup(pattern) == [type |-> "NonCapturingGroup", pattern |-> pattern]

NamedCapturingGroup(name, pattern) ==
    [type |-> "NamedCapturingGroup", name |-> name, pattern |-> pattern]

ModeGroup(modifiers, pattern) ==
    [type |-> "ModeGroup", modifiers |-> modifiers, pattern |-> pattern]

IfElseGroup(name, then, elsewise) ==
    [type |-> "IfElseGroup", name |-> name, then |-> then, elsewise |-> elsewise]

Lookaround(pattern, symbol) ==
    [type |-> "Lookaround", pattern |-> pattern, symbol |-> symbol]

Lookahead(pattern) == Lookaround(pattern, "=")

NegativeLookahead(pattern) == Lookaround(pattern, "!")

Lookbehind(pattern) == Lookaround(pattern, "<=")

NegativeLookbehind(pattern) == Lookaround(pattern, "<!")

AnchorStart == [type |-> "AnchorStart"]

AnchorEnd == [type |-> "AnchorEnd"]

CharSet(options) == [type |-> "CharSet", options |-> options]

Range(from_char, to_char) ==
    [type |-> "Range", from_char |-> from_char, to_char |-> to_char]

RepeatExactlyN(pattern, n, is_lazy) ==
    [type |-> "RepeatExactlyN", pattern |-> pattern, n |-> n, is_lazy |-> is_lazy]

RepeatAtLeastN(pattern, n, is_lazy) ==
    [type |-> "RepeatAtLeastN", pattern |-> pattern, n |-> n, is_lazy |-> is_lazy]

RepeatAtMostN(pattern, n, is_lazy) ==
    [type |-> "RepeatAtMostN", pattern |-> pattern, n |-> n, is_lazy |-> is_lazy]

RepeatBetweenNM(pattern, n, m, is_lazy) ==
    [type |-> "RepeatBetweenNM", pattern |-> pattern, n |-> n, m |-> m,
     is_lazy |-> is_lazy]

(***************************************************************************)
(* Outcomes of a call.                                                     *)
(***************************************************************************)
\* `return a`: the call returns the object at address a
Return(h, a) == [heap |-> h, ret |-> a, exc |-> ""]

\* `return Class(...)`: a new object is allocated and returned
New(h, node) == Return(Append(h, node), Len(h) + 1)

\* the call raises: nothing is returned
Raise(h, e) == [heap |-> h, ret |-> 0, exc |-> e]

\* type(x) is EmptyNode
IsEmptyNode(h, a) == h[a].type = "EmptyNode"

\* RegexNode.__bool__ / EmptyNode.__bool__
bool(h, a) == IF h[a].type = "EmptyNode" THEN FALSE ELSE TRUE

\* list(filter(None, xs))
RECURSIVE filterNone(_, _)
filterNone(h, xs) ==
    IF xs = <<>> THEN <<>>
    ELSE IF bool(h, Head(xs)) THEN <<Head(xs)>> \o filterNone(h, Tail(xs))
    ELSE filterNone(h, Tail(xs))

(***************************************************************************)
(* optimised(): one operator per class, and the dispatch on the class.     *)
(***************************************************************************)
RECURSIVE optimised(_, _)
RECURSIVE optimisedEach(_, _)

\* [item.optimised() for item in xs]: left to right, the first exception ends it
optimisedEach(h, xs) ==
    IF xs = <<>> THEN [heap |-> h, ret |-> <<>>, exc |-> ""]
    ELSE LET first == optimised(h, Head(xs)) IN
         IF first.exc # "" THEN first
         ELSE LET rest == optimisedEach(first.heap, Tail(xs)) IN
              IF rest.exc # "" THEN rest
              ELSE [heap |-> rest.heap, ret |-> <<first.ret>> \o rest.ret, exc |-> ""]

RegexNode_optimised(h, self) == Return(h, self)

\* faulty variant: the children are filtered but never simplified
Sequence_optimised_unsimplified(h, self) ==
    LET non_empty == filterNone(h, h[self].items) IN
    IF Len(non_empty) = 0 THEN New(h, EmptyNode)
    ELSE IF Len(non_empty) = 1 THEN Return(h, non_empty[1])
    ELSE New(h, Sequence(non_empty))

\* faulty variant: a single survivor stays wrapped in a Sequence
Sequence_optimised_wrapped(h, self) ==
    LET optimised_ == optimisedEach(h, h[self].items) IN
    IF optimised_.exc # "" THEN optimised_
    ELSE LET non_empty == filterNone(optimised_.heap, optimised_.ret) IN
         IF Len(non_empty) = 0 THEN New(optimised_.heap, EmptyNode)
         ELSE New(optimised_.heap, Sequence(non_empty))

\* faulty variant: self.items = non_empty; return self
Sequence_optimised_inplace(h, self) ==
    LET optimised_ == optimisedEach(h, h[self].items) IN
    IF optimised_.exc # "" THEN optimised_
    ELSE LET non_empty == filterNone(optimised_.heap, optimised_.ret) IN
         IF Len(non_empty) = 0 THEN New(optimised_.heap, EmptyNode)
         ELSE IF Len(non_empty) = 1 THEN Return(optimised_.heap, non_empty[1])
         ELSE Return([optimised_.heap EXCEPT ![self].items = non_empty], self)

Sequence_optimised(h, self) ==
    LET optimised_ == optimisedEach(h, h[self].items) IN
    IF optimised_.exc # "" THEN optimised_
    ELSE LET non_empty == filterNone(optimised_.heap, optimised_.ret) IN
         IF Len(non_empty) = 0 THEN New(optimised_.heap, EmptyNode)
         ELSE IF Len(non_empty) = 1 THEN Return(optimised_.heap, non_empty[1])
         ELSE New(optimised_.heap, Sequence(non_empty))

Alternation_optimised(h, self) ==
    LET optimised_ == optimisedEach(h, h[self].options) IN
    IF optimised_.exc # "" THEN optimised_
    ELSE New(optimised_.heap, Alternation(optimised_.ret))

OneOrMore_optimised(h, self) ==
    IF IsEmptyNode(h, h[self].pattern) THEN New(h, EmptyNode)
    ELSE LET optimised_ == optimised(h, h[self].pattern) IN
         IF optimised_.exc # "" THEN optimised_
         ELSE New(optimised_.heap, OneOrMore(optimised_.ret, h[self].is_lazy))

ZeroOrMore_optimised(h, self) ==
    IF IsEmptyNode(h, h[self].pattern) THEN New(h, EmptyNode)
    ELSE LET optimised_ == optimised(h, h[self].pattern) IN
         IF optimised_.exc # "" THEN optimised_
         ELSE New(optimised_.heap, ZeroOrMore(optimised_.ret, h[self].is_lazy))

Optional_optimised(h, self) ==
    IF IsEmptyNode(h, h[self].pattern) THEN New(h, EmptyNode)
    ELSE LET optimised_ == optimised(h, h[self].pattern) IN
         IF optimised_.exc # "" THEN optimised_
         ELSE New(optimised_.heap, Optional(optimised_.ret, h[self].is_lazy))

CapturingGroup_optimised(h, self) ==
    LET optimised_ == optimised(h, h[self].pattern) IN
    IF optimised_.exc # "" THEN optimised_
    ELSE New(optimised_.heap, CapturingGroup(optimised_.ret))

NonCapturingGroup_optimised(h, self) == optimised(h, h[self].pattern)

NamedCapturingGroup_optimised(h, self) ==
    LET optimised_ == optimised(h, h[self].pattern) IN
    IF optimised_.exc # "" THEN optimised_
    ELSE New(optimised_.heap, NamedCapturingGroup(h[self].name, optimised_.ret))

ModeGroup_optimised(h, self) ==
    IF IsEmptyNode(h, h[self].pattern) THEN New(h, EmptyNode)
    ELSE IF h[self].modifiers = "" THEN optimised(h, h[self].pattern)
    ELSE LET optimised_ == optimised(h, h[self].pattern) IN
         IF optimised_.exc # "" THEN optimised_
         ELSE New(optimised_.heap, ModeGroup(h[self].modifiers, optimised_.ret))

IfElseGroup_optimised(h, self) ==
    IF IsEmptyNode(h, h[self].then) /\ IsEmptyNode(h, h[self].elsewise)
    THEN New(h, EmptyNode)
    ELSE LET then_ == optimised(h, h[self].then) IN
         IF then_.exc # "" THEN then_
         ELSE LET else_ == optimised(then_.heap, h[self].elsewise) IN
              IF else_.exc # "" THEN else_
              ELSE New(else_.heap, IfElseGroup(h[self].name, then_.ret, else_.ret))

Lookaround_optimised(h, self) ==
    IF IsEmptyNode(h, h[self].pattern) THEN New(h, EmptyNode)
    ELSE LET optimised_ == optimised(h, h[self].pattern) IN
         IF optimised_.exc # "" THEN optimised_
         ELSE New(optimised_.heap, Lookaround(optimised_.ret, h[self].symbol))

Range_optimised(h, self) ==
    IF h[self].from_char = h[self].to_char THEN New(h, SingleChar(h[self].from_char))
    ELSE Return(h, self)

\* faulty variant: a count of 1 keeps the repeat
RepeatExactlyN_optimised_keeps1(h, self) ==
    IF IsEmptyNode(h, h[self].pattern) THEN New(h, EmptyNode)
    ELSE IF h[self].n = 0 THEN New(h, EmptyNode)
    ELSE LET optimised_ == optimised(h, h[self].pattern) IN
         IF optimised_.exc # "" THEN optimised_
         ELSE New(optimised_.heap,
                  RepeatExactlyN(optimised_.ret, h[self].n, h[self].is_lazy))

RepeatExactlyN_optimised(h, self) ==
    IF IsEmptyNode(h, h[self].pattern) THEN New(h, EmptyNode)
    ELSE IF h[self].n = 0 THEN New(h, EmptyNode)
    ELSE LET optimised_ == optimised(h, h[self].pattern) IN
         IF optimised_.exc # "" THEN optimised_
         ELSE IF h[self].n = 1 THEN optimised_
         ELSE New(optimised_.heap,
                  RepeatExactlyN(optimised_.ret, h[self].n, h[self].is_lazy))

\* ZeroOrMore(optimised) and OneOrMore(optimised): is_lazy takes its default, False
RepeatAtLeastN_optimised(h, self) ==
    IF IsEmptyNode(h, h[self].pattern) THEN New(h, EmptyNode)
    ELSE LET optimised_ == optimised(h, h[self].pattern) IN
         IF optimised_.exc # "" THEN optimised_
         ELSE IF h[self].n = 0 THEN New(optimised_.heap, ZeroOrMore(optimised_.ret, FALSE))
         ELSE IF h[self].n = 1 THEN New(optimised_.heap, OneOrMore(optimised_.ret, FALSE))
         ELSE New(optimised_.heap,
                  RepeatAtLeastN(optimised_.ret, h[self].n, h[self].is_lazy))

RepeatAtMostN_optimised(h, self) ==
    IF IsEmptyNode(h, h[self].pattern) THEN New(h, EmptyNode)
    ELSE IF h[self].n = 0 THEN New(h, EmptyNode)
    ELSE LET optimised_ == optimised(h, h[self].pattern) IN
         IF optimised_.exc # "" THEN optimised_
         ELSE IF h[self].n = 1 THEN optimised_
         ELSE New(optimised_.heap,
                  RepeatAtMostN(optimised_.ret, h[self].n, h[self].is_lazy))

\* n == m: RepeatExactlyN(optimised, is_lazy=...) omits the required argument n of
\* RepeatExactlyN.__init__(self, pattern, n, is_lazy=False): Python raises TypeError
RepeatBetweenNM_optimised(h, self) ==
    IF IsEmptyNode(h, h[self].pattern) THEN New(h, EmptyNode)
    ELSE LET optimised_ == optimised(h, h[self].pattern) IN
         IF optimised_.exc # "" THEN optimised_
         ELSE IF h[self].n = h[self].m THEN Raise(optimised_.heap, "TypeError")
         ELSE IF h[self].m = 0 THEN New(optimised_.heap, EmptyNode)
         ELSE IF h[self].m = 1
              THEN New(optimised_.heap, Optional(optimised_.ret, h[self].n = 0))
         ELSE New(optimised_.heap,
                  RepeatBetweenNM(optimised_.ret, h[self].n, h[self].m, h[self].is_lazy))

\* method resolution: the class's own optimised, else RegexNode's
optimised(h, self) ==
    CASE h[self].type = "Sequence" -> Sequence_optimised(h, self)
      [] h[self].type = "Alternation" -> Alternation_optimised(h, self)
      [] h[self].type = "OneOrMore" -> OneOrMore_optimised(h, self)
      [] h[self].type = "ZeroOrMore" -> ZeroOrMore_optimised(h, self)
      [] h[self].type = "Optional" -> Optional_optimised(h, self)
      [] h[self].type = "CapturingGroup" -> CapturingGroup_optimised(h, self)
      [] h[self].type = "NonCapturingGroup" -> NonCapturingGroup_optimised(h, self)
      [] h[self].type = "NamedCapturingGroup" -> NamedCapturingGroup_optimised(h, self)
      [] h[self].type = "ModeGroup" -> ModeGroup_optimised(h, self)
      [] h[self].type = "IfElseGroup" -> IfElseGroup_optimised(h, self)
      [] h[self].type = "Lookaround" -> Lookaround_optimised(h, self)
      [] h[self].type = "Range" -> Range_optimised(h, self)
      [] h[self].type = "RepeatExactlyN" -> RepeatExactlyN_optimised(h, self)
      [] h[self].type = "RepeatAtLeastN" -> RepeatAtLeastN_optimised(h, self)
      [] h[self].type = "RepeatAtMostN" -> RepeatAtMostN_optimised(h, self)
      [] h[self].type = "RepeatBetweenNM" -> RepeatBetweenNM_optimised(h, self)
      [] OTHER -> RegexNode_optimised(h, self)

(***************************************************************************)
(* regex(as_atom): the rendered text. No regex() raises.                   *)
(***************************************************************************)
RECURSIVE regex(_, _, _)
RECURSIVE regexEach(_, _)
RECURSIVE join(_, _)

\* [item.regex() for item in xs]: each with the default as_atom=False
regexEach(h, xs) ==
    IF xs = <<>> THEN <<>>
    ELSE <<regex(h, Head(xs), FALSE)>> \o regexEach(h, Tail(xs))

\* sep.join(texts)
join(sep, texts) ==
    IF texts = <<>> THEN ""
    ELSE IF Len(texts) = 1 THEN texts[1]
    ELSE texts[1] \o sep \o join(sep, Tail(texts))

\* str(n) of a count
str(n) == ToString(n)

RegexNode_regex(h, self, as_atom) == ""

Sequence_regex(h, self, as_atom) ==
    LET pattern == join("", regexEach(h, h[self].items)) IN
    IF as_atom THEN "(?:" \o pattern \o ")"
    ELSE pattern

Alternation_regex(h, self, as_atom, is_root) ==
    LET pattern == join("|", regexEach(h, h[self].options)) IN
    IF is_root THEN pattern
    ELSE "(?:" \o pattern \o ")"

SingleChar_regex(h, self, as_atom) == h[self].char

\* faulty variant: as_atom is ignored
OneOrMore_regex_unwrapped(h, self, as_atom) ==
    IF IsEmptyNode(h, h[self].pattern) THEN ""
    ELSE LET regex1 == regex(h, h[self].pattern, TRUE) \o "+"
         IN IF h[self].is_lazy THEN regex1 \o "?" ELSE regex1

OneOrMore_regex(h, self, as_atom) ==
    IF IsEmptyNode(h, h[self].pattern) THEN ""
    ELSE LET regex1 == regex(h, h[self].pattern, TRUE) \o "+"
             regex2 == IF h[self].is_lazy THEN regex1 \o "?" ELSE regex1
         IN IF as_atom THEN "(?:" \o regex2 \o ")" ELSE regex2

ZeroOrMore_regex(h, self, as_atom) ==
    IF IsEmptyNode(h, h[self].pattern) THEN ""
    ELSE LET regex1 == regex(h, h[self].pattern, TRUE) \o "*"
             regex2 == IF h[self].is_lazy THEN regex1 \o "?" ELSE regex1
         IN IF as_atom THEN "(?:" \o regex2 \o ")" ELSE regex2

Optional_regex(h, self, as_atom) ==
    IF IsEmptyNode(h, h[self].pattern) THEN ""
    ELSE LET regex1 == regex(h, h[self].pattern, TRUE) \o "?"
             regex2 == IF h[self].is_lazy THEN regex1 \o "?" ELSE regex1
         IN IF as_atom THEN "(?:" \o regex2 \o ")" ELSE regex2

CapturingGroup_regex(h, self, as_atom) ==
    "(" \o regex(h, h[self].pattern, FALSE) \o ")"

NonCapturingGroup_regex(h, self, as_atom) ==
    "(?:" \o regex(h, h[self].pattern, FALSE) \o ")"

NamedCapturingGroup_regex(h, self, as_atom) ==
    "(?P<" \o h[self].name \o ">" \o regex(h, h[self].pattern, FALSE) \o ")"

ModeGroup_regex(h, self, as_atom) ==
    IF IsEmptyNode(h, h[self].pattern) THEN ""
    ELSE IF h[self].modifiers = "" THEN regex(h, h[self].pattern, as_atom)
    ELSE "(?" \o h[self].modifiers \o ":" \o regex(h, h[self].pattern, FALSE) \o ")"

IfElseGroup_regex(h, self, as_atom) ==
    "(?(" \o h[self].name \o ")" \o regex(h, h[self].then, FALSE) \o "|"
        \o regex(h, h[self].elsewise, FALSE) \o ")"

Lookaround_regex(h, self, as_atom) ==
    "(?" \o h[self].symbol \o regex(h, h[self].pattern, FALSE) \o ")"

AnchorStart_regex(h, self, as_atom) == "^"

AnchorEnd_regex(h, self, as_atom) == "$"

CharSet_regex(h, self, as_atom) ==
    "[" \o join("", regexEach(h, h[self].options)) \o "]"

Range_regex(h, self, as_atom) == h[self].from_char \o "-" \o h[self].to_char

RepeatExactlyN_regex(h, self, as_atom) ==
    LET regex0 == regex(h, h[self].pattern, TRUE) IN
    IF regex0 = "" THEN ""
    ELSE LET regex1 == regex0 \o "{" \o str(h[self].n) \o "}"
             regex2 == IF h[self].is_lazy THEN regex1 \o "?" ELSE regex1
         IN IF as_atom THEN "(?:" \o regex2 \o ")" ELSE regex2

RepeatAtLeastN_regex(h, self, as_atom) ==
    LET regex0 == regex(h, h[self].pattern, TRUE) IN
    IF regex0 = "" THEN ""
    ELSE LET regex1 == regex0 \o "{" \o str(h[self].n) \o ",}"
             regex2 == IF h[self].is_lazy THEN regex1 \o "?" ELSE regex1
         IN IF as_atom THEN "(?:" \o regex2 \o ")" ELSE regex2

RepeatAtMostN_regex(h, self, as_atom) ==
    LET regex0 == regex(h, h[self].pattern, TRUE) IN
    IF regex0 = "" THEN ""
    ELSE LET regex1 == regex0 \o "{," \o str(h[self].n) \o "}"
             regex2 == IF h[self].is_lazy THEN regex1 \o "?" ELSE regex1
         IN IF as_atom THEN "(?:" \o regex2 \o ")" ELSE regex2

RepeatBetweenNM_regex(h, self, as_atom) ==
    LET regex0 == regex(h, h[self].pattern, TRUE) IN
    IF regex0 = "" THEN ""
    ELSE LET regex1 == regex0 \o "{" \o str(h[self].n) \o "," \o str(h[self].m) \o "}"
             regex2 == IF h[self].is_lazy THEN regex1 \o "?" ELSE regex1
         IN IF as_atom THEN "(?:" \o regex2 \o ")" ELSE regex2

\* method resolution: the class's own regex, else RegexNode's (EmptyNode);
\* no caller passes Alternation.regex its is_root, so it is the default, False
regex(h, self, as_atom) ==
    CASE h[self].type = "Sequence" -> Sequence_regex(h, self, as_atom)
      [] h[self].type = "Alternation" -> Alternation_regex(h, self, as_atom, FALSE)
      [] h[self].type = "SingleChar" -> SingleChar_regex(h, self, as_atom)
      [] h[self].type = "OneOrMore" -> OneOrMore_regex(h, self, as_atom)
      [] h[self].type = "ZeroOrMore" -> ZeroOrMore_regex(h, self, as_atom)
      [] h[self].type = "Optional" -> Optional_regex(h, self, as_atom)
      [] h[self].type = "CapturingGroup" -> CapturingGroup_regex(h, self, as_atom)
      [] h[self].type = "NonCapturingGroup" -> NonCapturingGroup_regex(h, self, as_atom)
      [] h[self].type = "NamedCapturingGroup" -> NamedCapturingGroup_regex(h, self, as_atom)
      [] h[self].type = "ModeGroup" -> ModeGroup_regex(h, self, as_atom)
      [] h[self].type = "IfElseGroup" -> IfElseGroup_regex(h, self, as_atom)
      [] h[self].type = "Lookaround" -> Lookaround_regex(h, self, as_atom)
      [] h[self].type = "AnchorStart" -> AnchorStart_regex(h, self, as_atom)
      [] h[self].type = "AnchorEnd" -> AnchorEnd_regex(h, self, as_atom)
      [] h[self].type = "CharSet" -> CharSet_regex(h, self, as_atom)
      [] h[self].type = "Range" -> Range_regex(h, self, as_atom)
      [] h[self].type = "RepeatExactlyN" -> RepeatExactlyN_regex(h, self, as_atom)
      [] h[self].type = "RepeatAtLeastN" -> RepeatAtLeastN_regex(h, self, as_atom)
      [] h[self].type = "RepeatAtMostN" -> RepeatAtMostN_regex(h, self, as_atom)
      [] h[self].type = "RepeatBetweenNM" -> RepeatBetweenNM_regex(h, self, as_atom)
      [] OTHER -> RegexNode_regex(h, self, as_atom)

(***************************************************************************)
(* rebuild.builder, which the example programs import. A pattern is        *)
(* written as a tree value (children nested in place of addresses);        *)
(* Construct allocates its objects, children first.                        *)
(***************************************************************************)
RECURSIVE Construct(_, _)
RECURSIVE ConstructEach(_, _)

ConstructEach(h, ts) ==
    IF ts = <<>> THEN Return(h, <<>>)
    ELSE LET first == Construct(h, Head(ts))
             rest == ConstructEach(first.heap, Tail(ts))
         IN Return(rest.heap, <<first.ret>> \o rest.ret)

Construct(h, t) ==
    IF "items" \in DOMAIN t
    THEN LET c == ConstructEach(h, t.items) IN New(c.heap, [t EXCEPT !.items = c.ret])
    ELSE IF "options" \in DOMAIN t
    THEN LET c == ConstructEach(h, t.options) IN New(c.heap, [t EXCEPT !.options = c.ret])
    ELSE IF "then" \in DOMAIN t
    THEN LET c == ConstructEach(h, <<t.then, t.elsewise>>)
         IN New(c.heap, [t EXCEPT !.then = c.ret[1], !.elsewise = c.ret[2]])
    ELSE IF "pattern" \in DOMAIN t
    THEN LET c == Construct(h, t.pattern) IN New(c.heap, [t EXCEPT !.pattern = c.ret])
    ELSE New(h, t)

\* the characters that are syntax in a pattern
Special == {".", "^", "$", "*", "+", "?", "{", "}", "[", "]", "(", ")", "|", "\\"}

escape(c) == IF c \in Special THEN "\\" \o c ELSE c

\* a text is given as the sequence of its characters
literally(text) == Sequence([i \in DOMAIN text |-> SingleChar(escape(text[i]))])

\* a bare text fragment: inserted verbatim
raw(text) == SingleChar(text)

digit == CharSet(<<SingleChar("\\d")>>)

letter == CharSet(<<Range("a", "z"), Range("A", "Z")>>)

one_of(chars) == CharSet([i \in DOMAIN chars |-> SingleChar(chars[i])])

anything == SingleChar(".")

either(options) == Alternation(options)

optionally(p) == Optional(p, FALSE)

one_or_more(p, greedy) == OneOrMore(p, ~greedy)

zero_or_more(p, greedy) == ZeroOrMore(p, ~greedy)

at_least_n_times(n, p) == RepeatAtLeastN(p, n, FALSE)

capture_as(name, p) == NamedCapturingGroup(name, p)

must_end == AnchorEnd

\* p + q: one flat Sequence
append(p, q) ==
    Sequence((IF p.type = "Sequence" THEN p.items ELSE <<p>>)
             \o (IF q.type = "Sequence" THEN q.items ELSE <<q>>))

force_full(p) == append(append(AnchorStart, p), AnchorEnd)

\* print(pat): the text of the simplified tree
print(h, pat) ==
    LET r == optimised(h, pat) IN
    [heap |-> r.heap, ret |-> r.ret, exc |-> r.exc,
     out |-> IF r.exc = "" THEN regex(r.heap, r.ret, FALSE) ELSE ""]

(***************************************************************************)
(* The example programs.                                                   *)
(***************************************************************************)
email_pat ==
    force_full(
        append(append(
            capture_as("name",
                one_or_more(either(<<digit, letter,
                                     one_of(<<".", "_", "%", "+", "-">>)>>), TRUE)),
            literally(<<"@">>)),
            capture_as("domain",
                append(append(one_or_more(raw("[\\d\\w.-]"), TRUE),
                              literally(<<".">>)),
                       at_least_n_times(2, letter)))))

url_pat ==
    force_full(
        append(append(append(append(append(append(
            capture_as("protocol", one_or_more(letter, TRUE)),
            literally(<<":", "/", "/">>)),
            capture_as("domain",
                append(append(one_or_more(letter, TRUE),
                              one_or_more(either(<<letter, literally(<<".">>)>>), TRUE)),
                       at_least_n_times(2, letter)))),
            optionally(append(literally(<<":">>),
                              capture_as("port", one_or_more(digit, TRUE))))),
            optionally(capture_as("path",
                append(literally(<<"/">>), zero_or_more(anything, FALSE))))),
            either(<<literally(<<"?">>), must_end>>)),
            optionally(capture_as("parameters", zero_or_more(anything, TRUE)))))

\* the text in the trailing comment of each program
email_documented ==
    "^(?P<name>[\\da-zA-Z._%+-]+)@(?P<domain>[\\d\\w.-]+\\.[a-zA-Z]{2,})$"

url_documented ==
    "^(?P<protocol>[a-zA-Z]+)://(?P<domain>[a-zA-Z]+[a-zA-Z\\.]+[a-zA-Z]{2,})(?::(?P<port>\\d+))?(?P<path>/.*?)?(?:\\?|$)(?P<parameters>.*)?$"

(***************************************************************************)
(* The caller: it constructs a tree bottom-up, then calls optimised() and  *)
(* regex() on it and on what optimised() returned.                         *)
(***************************************************************************)
Init ==
    /\ heap = <<>>
    /\ root = 0
    /\ op = "init"
    /\ arg = 0
    /\ atom = FALSE
    /\ ret = 0
    /\ exc = ""
    /\ out = ""
    /\ depth = 0
    /\ calls = 0

\* the patterns a caller starts from: the childless nodes and a few small trees
Starts ==
    {EmptyNode, SingleChar("a"), AnchorStart, AnchorEnd, Range("a", "a"),
     Range("a", "b"), Sequence(<<>>), Sequence(<<EmptyNode>>),
     Sequence(<<SingleChar("a"), SingleChar("b")>>),
     RepeatBetweenNM(SingleChar("a"), 1, 1, FALSE)}

\* the siblings a caller puts beside root in a list of children
Pads == {<<>>, <<EmptyNode>>, <<SingleChar("b")>>}

\* the counts of the counted repeats
Counts == 0 .. MaxN

\* the addresses Len(h)+1 .. Len(h)+k
Fresh(h, k) == [i \in 1 .. k |-> Len(h) + i]

\* root becomes the object just constructed, the last of h
Constructed(h, d) ==
    /\ heap' = h
    /\ root' = Len(h)
    /\ op' = "new"
    /\ depth' = d
    /\ UNCHANGED <<arg, atom, ret, exc, out, calls>>

CanWrap == op = "new" /\ depth < MaxDepth

NewTree ==
    /\ op = "init"
    /\ \E t \in Starts : Constructed(Construct(heap, t).heap, 0)

NewSequence ==
    /\ CanWrap
    /\ \E pre \in Pads, post \in Pads :
         LET h1 == heap \o pre \o post
             items == Fresh(heap, Len(pre)) \o <<root>> \o Fresh(heap \o pre, Len(post))
         IN Constructed(Append(h1, Sequence(items)), depth + 1)

NewAlternation ==
    /\ CanWrap
    /\ \E post \in Pads :
         LET options == <<root>> \o Fresh(heap, Len(post))
         IN Constructed(Append(heap \o post, Alternation(options)), depth + 1)

NewCharSet ==
    /\ CanWrap
    /\ heap[root].type \in {"SingleChar", "Range"}
    /\ \E post \in {<<>>, <<Range("a", "b")>>} :
         LET options == <<root>> \o Fresh(heap, Len(post))
         IN Constructed(Append(heap \o post, CharSet(options)), depth + 1)

NewQuantifier ==
    /\ CanWrap
    /\ \E is_lazy \in BOOLEAN :
       \E node \in {OneOrMore(root, is_lazy), ZeroOrMore(root, is_lazy),
                    Optional(root, is_lazy)} :
         Constructed(Append(heap, node), depth + 1)

NewGroup ==
    /\ CanWrap
    /\ \E node \in {CapturingGroup(root), NonCapturingGroup(root),
                    NamedCapturingGroup("g", root), ModeGroup("", root),
                    ModeGroup("i", root)} :
         Constructed(Append(heap, node), depth + 1)

NewIfElseGroup ==
    /\ CanWrap
    /\ \E other \in {EmptyNode, SingleChar("b")} :
       \E node \in {IfElseGroup("g", root, Len(heap) + 1),
                    IfElseGroup("g", Len(heap) + 1, root)} :
         Constructed(Append(Append(heap, other), node), depth + 1)

NewLookaround ==
    /\ CanWrap
    /\ \E node \in {Lookahead(root), NegativeLookahead(root), Lookbehind(root),
                    NegativeLookbehind(root)} :
         Constructed(Append(heap, node), depth + 1)

NewRepeat ==
    /\ CanWrap
    /\ \E n \in Counts, is_lazy \in BOOLEAN :
       \E node \in {RepeatExactlyN(root, n, is_lazy), RepeatAtLeastN(root, n, is_lazy),
                    RepeatAtMostN(root, n, is_lazy)} :
         Constructed(Append(heap, node), depth + 1)

NewRepeatBetweenNM ==
    /\ CanWrap
    /\ \E n \in Counts, m \in Counts, is_lazy \in BOOLEAN :
         /\ n <= m
         /\ Constructed(Append(heap, RepeatBetweenNM(root, n, m, is_lazy)), depth + 1)

\* the objects the caller holds: the tree it built and the last simplified tree
Held == {root, ret} \ {0}

CanCall == op \in {"new", "optimised", "regex"} /\ calls < MaxCalls

CallOptimised ==
    /\ CanCall
    /\ \E self \in Held :
         LET r == optimised(heap, self) IN
         /\ heap' = r.heap
         /\ ret' = r.ret
         /\ exc' = r.exc
         /\ arg' = self
    /\ op' = "optimised"
    /\ calls' = calls + 1
    /\ UNCHANGED <<root, atom, out, depth>>

CallRegex ==
    /\ CanCall
    /\ \E self \in Held, as_atom \in BOOLEAN :
         /\ out' = regex(heap, self, as_atom)
         /\ arg' = self
         /\ atom' = as_atom
    /\ op' = "regex"
    /\ exc' = ""
    /\ calls' = calls + 1
    /\ UNCHANGED <<heap, root, ret, depth>>

\* pat = force_full(...): the objects of the program's pattern, on an empty heap
email_built == Construct(<<>>, email_pat)

url_built == Construct(<<>>, url_pat)

\* a program: build pat, print it
Run(program, built) ==
    /\ op = "init"
    /\ LET p == print(built.heap, built.ret)
       IN /\ heap' = p.heap
          /\ root' = built.ret
          /\ arg' = built.ret
          /\ ret' = p.ret
          /\ exc' = p.exc
          /\ out' = p.out
    /\ op' = program
    /\ UNCHANGED <<atom, depth, calls>>

Example_email == Run("email", email_built)

Example_url == Run("url", url_built)

Next ==
    \/ NewTree
    \/ NewSequence
    \/ NewAlternation
    \/ NewCharSet
    \/ NewQuantifier
    \/ NewGroup
    \/ NewIfElseGroup
    \/ NewLookaround
    \/ NewRepeat
    \/ NewRepeatBetweenNM
    \/ CallOptimised
    \/ CallRegex
    \/ Example_email
    \/ Example_url

Spec == Init /\ [][Next]_vars

(***************************************************************************)
(* Reading the heap.                                                       *)
(***************************************************************************)
RECURSIVE TreeOf(_, _)

\* the tree at address a as a value: every child address replaced by its tree
TreeOf(h, a) ==
    LET node == h[a] IN
    IF "items" \in DOMAIN node
    THEN [node EXCEPT !.items = [i \in DOMAIN node.items |-> TreeOf(h, node.items[i])]]
    ELSE IF "options" \in DOMAIN node
    THEN [node EXCEPT !.options = [i \in DOMAIN node.options |-> TreeOf(h, node.options[i])]]
    ELSE IF "then" \in DOMAIN node
    THEN [node EXCEPT !.then = TreeOf(h, node.then),
                      !.elsewise = TreeOf(h, node.elsewise)]
    ELSE IF "pattern" \in DOMAIN node
    THEN [node EXCEPT !.pattern = TreeOf(h, node.pattern)]
    ELSE node

\* x.optimised().regex(): the text, or the exception optimised() raised
Simplified(h, a) ==
    LET r == optimised(h, a) IN
    [exc |-> r.exc, text |-> IF r.exc = "" THEN regex(r.heap, r.ret, FALSE) ELSE ""]

\* Class(...).optimised().regex() of an object constructed for the comparison
SimplifiedNew(h, node) == Simplified(Append(h, node), Len(h) + 1)

\* the last call was root.optimised()
OptimisedRoot == op = "optimised" /\ arg = root

\* the last call was root.regex(as_atom)
RenderedRoot == op = "regex" /\ arg = root

(***************************************************************************)
(* C1. Simplifying RepeatBetweenNM(P, n, n), P not Empty, returns a        *)
(* result, and the result renders to the same text as the simplified       *)
(* RepeatExactlyN(P, n) with the same laziness flag.                       *)
(***************************************************************************)
C1_BetweenNNIsExactlyN ==
    (/\ OptimisedRoot
     /\ heap[root].type = "RepeatBetweenNM"
     /\ heap[root].n = heap[root].m
     /\ ~IsEmptyNode(heap, heap[root].pattern))
    => /\ exc = ""
       /\ [exc |-> "", text |-> regex(heap, ret, FALSE)]
            = SimplifiedNew(heap, RepeatExactlyN(heap[root].pattern, heap[root].n,
                                                 heap[root].is_lazy))

(***************************************************************************)
(* C2. Collapse laws: the simplified RepeatExactlyN(P, 1) renders as the   *)
(* simplified P; the simplified RepeatAtLeastN(P, 0) renders as the        *)
(* simplified ZeroOrMore(P); the simplified RepeatAtLeastN(P, 1) renders   *)
(* as the simplified OneOrMore(P). ZeroOrMore(P) and OneOrMore(P) are      *)
(* written without a laziness flag, so they are greedy, and so is the      *)
(* RepeatAtLeastN they are compared with. Two sides that raise the same    *)
(* exception agree.                                                        *)
(***************************************************************************)
C2_CollapseLaws ==
    /\ (op # "init" /\ heap[root].type = "RepeatExactlyN" /\ heap[root].n = 1)
       => Simplified(heap, root) = Simplified(heap, heap[root].pattern)
    /\ (op # "init" /\ heap[root].type = "RepeatAtLeastN" /\ heap[root].n = 0
        /\ ~heap[root].is_lazy)
       => Simplified(heap, root) = SimplifiedNew(heap, ZeroOrMore(heap[root].pattern, FALSE))
    /\ (op # "init" /\ heap[root].type = "RepeatAtLeastN" /\ heap[root].n = 1
        /\ ~heap[root].is_lazy)
       => Simplified(heap, root) = SimplifiedNew(heap, OneOrMore(heap[root].pattern, FALSE))

\* RepeatAtLeastN(P, 1) over a compound P has been simplified to a OneOrMore
C2_Witness ==
    /\ OptimisedRoot
    /\ heap[root].type = "RepeatAtLeastN"
    /\ heap[root].n = 1
    /\ ~heap[root].is_lazy
    /\ heap[heap[root].pattern].type = "Sequence"
    /\ exc = ""
    /\ heap[ret].type = "OneOrMore"
    /\ regex(heap, ret, FALSE) = "(?:ab)+"

(***************************************************************************)
(* C3. Vacuity propagation: the simplified Sequence([Empty, P, Empty])     *)
(* renders as the simplified P alone; OneOrMore(Empty), ZeroOrMore(Empty)  *)
(* and Optional(Empty), lazy or not, simplify to a node that renders as    *)
(* empty text.                                                             *)
(***************************************************************************)
\* root is Sequence([Empty, P, Empty])
IsPadded(h, a) ==
    /\ h[a].type = "Sequence"
    /\ Len(h[a].items) = 3
    /\ IsEmptyNode(h, h[a].items[1])
    /\ IsEmptyNode(h, h[a].items[3])

C3_VacuityPropagation ==
    /\ (op # "init" /\ IsPadded(heap, root))
       => Simplified(heap, root) = Simplified(heap, heap[root].items[2])
    /\ (/\ op # "init"
        /\ heap[root].type \in {"OneOrMore", "ZeroOrMore", "Optional"}
        /\ IsEmptyNode(heap, heap[root].pattern))
       => Simplified(heap, root) = [exc |-> "", text |-> ""]

\* Sequence([Empty, P, Empty]) has been simplified, and simplifying changed P's text
C3_Witness ==
    /\ OptimisedRoot
    /\ IsPadded(heap, root)
    /\ exc = ""
    /\ regex(heap, ret, FALSE) # ""
    /\ regex(heap, ret, FALSE) # regex(heap, heap[root].items[2], FALSE)

(***************************************************************************)
(* C4. Atom wrapping. As stated: OneOrMore(Sequence([SingleChar a,         *)
(* SingleChar b])).regex(as_atom=True) is exactly '(?:ab)+'.               *)
(***************************************************************************)
\* root is OneOrMore(Sequence([SingleChar a, SingleChar b])), greedy
IsPlusAB(h, a) ==
    /\ h[a].type = "OneOrMore"
    /\ ~h[a].is_lazy
    /\ TreeOf(h, h[a].pattern) = Sequence(<<SingleChar("a"), SingleChar("b")>>)

C4_AtomIsPlusAB ==
    (RenderedRoot /\ atom /\ IsPlusAB(heap, root)) => out = "(?:ab)+"

\* C4 as amended: regex(as_atom=True) is '(?:(?:ab)+)', the text '(?:ab)+' wrapped
\* in a further non-capturing group; '(?:ab)+' is the render with as_atom=False
C4_AtomWrapsPlusAB ==
    (RenderedRoot /\ IsPlusAB(heap, root))
    => out = (IF atom THEN "(?:(?:ab)+)" ELSE "(?:ab)+")

\* OneOrMore(Sequence([a, b])) has been rendered as an atom
C4_Witness == RenderedRoot /\ atom /\ IsPlusAB(heap, root)

(***************************************************************************)
(* C6. OneOrMore, ZeroOrMore and Optional render, for every child and      *)
(* laziness flag: as empty text, in atom and non-atom context, if the      *)
(* child renders to empty text; otherwise as the child's as_atom=True      *)
(* render, then the suffix '+', '*' or '?', then '?' if lazy, the whole    *)
(* wrapped in '(?:' ... ')' when the node is rendered as an atom.          *)
(***************************************************************************)
Suffix(type) ==
    CASE type = "OneOrMore" -> "+"
      [] type = "ZeroOrMore" -> "*"
      [] type = "Optional" -> "?"

C6_QuantifierRender ==
    (RenderedRoot /\ heap[root].type \in {"OneOrMore", "ZeroOrMore", "Optional"})
    => LET child == heap[root].pattern
           body == regex(heap, child, TRUE) \o Suffix(heap[root].type)
                     \o (IF heap[root].is_lazy THEN "?" ELSE "")
       IN IF regex(heap, child, FALSE) = "" THEN out = ""
          ELSE out = (IF atom THEN "(?:" \o body \o ")" ELSE body)

(***************************************************************************)
(* C7. Simplifying a Sequence returns Empty when no simplified child is    *)
(* meaningful, the single survivor when exactly one is, and otherwise a    *)
(* Sequence of the meaningful simplified children in their order; and in   *)
(* the tree simplification returns, every Sequence has at least two        *)
(* children, none of them Empty.                                           *)
(***************************************************************************)
RECURSIVE SequencesAreProper(_)

\* every Sequence of the tree t has two or more children, none of them Empty
SequencesAreProper(t) ==
    /\ t.type = "Sequence"
       => /\ Len(t.items) >= 2
          /\ \A i \in DOMAIN t.items : t.items[i].type # "EmptyNode"
    /\ "items" \in DOMAIN t => \A i \in DOMAIN t.items : SequencesAreProper(t.items[i])
    /\ "options" \in DOMAIN t => \A i \in DOMAIN t.options : SequencesAreProper(t.options[i])
    /\ "then" \in DOMAIN t => SequencesAreProper(t.then) /\ SequencesAreProper(t.elsewise)
    /\ "pattern" \in DOMAIN t => SequencesAreProper(t.pattern)

\* the simplified children of the Sequence at a, as trees (none raises)
SimplifiedItems(h, a) ==
    [i \in DOMAIN h[a].items |->
        LET r == optimised(h, h[a].items[i]) IN TreeOf(r.heap, r.ret)]

IsMeaningful(t) == t.type # "EmptyNode"

C7_SequenceSimplify ==
    (op = "optimised" /\ exc = "")
    => /\ SequencesAreProper(TreeOf(heap, ret))
       /\ heap[arg].type = "Sequence"
          => LET survivors == SelectSeq(SimplifiedItems(heap, arg), IsMeaningful) IN
             TreeOf(heap, ret) =
                 (IF Len(survivors) = 0 THEN EmptyNode
                  ELSE IF Len(survivors) = 1 THEN survivors[1]
                  ELSE Sequence(survivors))

\* a Sequence holding a character, a Sequence and an Empty has been simplified to a
\* Sequence of its two survivors
C7_Witness ==
    /\ OptimisedRoot
    /\ exc = ""
    /\ heap[root].type = "Sequence"
    /\ Len(heap[root].items) = 3
    /\ IsEmptyNode(heap, heap[root].items[3])
    /\ heap[heap[root].items[2]].type = "Sequence"
    /\ TreeOf(heap, ret) =
         Sequence(<<SingleChar("b"), Sequence(<<SingleChar("a"), SingleChar("b")>>)>>)

(***************************************************************************)
(* C8. Simplification never mutates a node: whatever the call, every       *)
(* object that exists keeps its attributes and its list of children, and   *)
(* the tree the caller built is the same tree and renders to the same      *)
(* text afterwards.                                                        *)
(***************************************************************************)
C8_NoMutation ==
    [][/\ Len(heap') >= Len(heap)
       /\ \A a \in DOMAIN heap : heap'[a] = heap[a]
       /\ op # "init"
          => /\ TreeOf(heap', root) = TreeOf(heap, root)
             /\ regex(heap', root, FALSE) = regex(heap, root, FALSE)
             /\ regex(heap', root, TRUE) = regex(heap, root, TRUE)]_vars

\* a Sequence with an Empty child has been simplified to another Sequence, a new object
C8_Witness ==
    /\ OptimisedRoot
    /\ exc = ""
    /\ heap[root].type = "Sequence"
    /\ \E i \in DOMAIN heap[root].items : IsEmptyNode(heap, heap[root].items[i])
    /\ heap[ret].type = "Sequence"
    /\ ret # root
    /\ Len(heap[ret].items) < Len(heap[root].items)

(***************************************************************************)
(* C9. Simplification is idempotent: when optimised() returns, simplifying *)
(* its result again returns a structurally equal tree.                     *)
(***************************************************************************)
C9_Idempotent ==
    (op = "optimised" /\ exc = "")
    => LET again == optimised(heap, ret) IN
       /\ again.exc = ""
       /\ TreeOf(again.heap, again.ret) = TreeOf(heap, ret)

(***************************************************************************)
(* C10. Simplifying RepeatAtLeastN(P, n, is_lazy), P not Empty, returns a  *)
(* ZeroOrMore when n = 0, a OneOrMore when n = 1 and a RepeatAtLeastN      *)
(* otherwise, and the node returned carries the original's is_lazy.        *)
(***************************************************************************)
C10_AtLeastKeepsLaziness ==
    (/\ OptimisedRoot
     /\ exc = ""
     /\ heap[root].type = "RepeatAtLeastN"
     /\ ~IsEmptyNode(heap, heap[root].pattern))
    => /\ heap[ret].type = (IF heap[root].n = 0 THEN "ZeroOrMore"
                            ELSE IF heap[root].n = 1 THEN "OneOrMore"
                            ELSE "RepeatAtLeastN")
       /\ heap[ret].is_lazy = heap[root].is_lazy

(***************************************************************************)
(* C5. Each example program prints exactly the pattern text documented in  *)
(* its trailing comment.                                                   *)
(***************************************************************************)
C5_ExamplesPrintDocumented ==
    /\ op = "email" => (exc = "" /\ out = email_documented)
    /\ op = "url" => (exc = "" /\ out = url_documented)

====
